---------------------------- MODULE Spec2Model ----------------------------
(***************************************************************************)
(* Model of src/app.py: the farmer training module generator.              *)
(*                                                                         *)
(* A Python str is modelled as a sequence of one-character strings, so     *)
(* that lower(), upper(), title() and strip() are computed character by    *)
(* character.  Fixed template text that no operation inspects is kept as   *)
(* one multi-character chunk inside such a sequence (emoji are left out of *)
(* the chunks).  A chunk never equals an input character, so a search for  *)
(* an input value inside a text can only match interpolated characters.    *)
(***************************************************************************)
EXTENDS Integers, Sequences, FiniteSets, TLC

VARIABLES
    CROP_INFO,          \* AgricultureExpert.CROP_INFO, a class attribute
    PROBLEM_SOLUTIONS,  \* AgricultureExpert.PROBLEM_SOLUTIONS
    hashSecret,         \* the interpreter's per-process string hash secret
    clock,              \* wall clock, minutes since midnight
    pc,                 \* per worker thread: position in the /generate handler
    request_data,       \* per worker thread: outcome of request.get_json()
    frame,              \* per worker thread: locals of the handler and create_module
    response,           \* per worker thread: the response returned
    fn,                 \* direct call of a function: which function
    args,               \* direct call: its arguments
    ret,                \* direct call: its return value
    insightLog          \* <<arguments, result>> of generate_ai_insight calls of this process

vars == <<CROP_INFO, PROBLEM_SOLUTIONS, hashSecret, clock, pc, request_data,
          frame, response, fn, args, ret, insightLog>>

---------------------------------------------------------------------------
(* Characters and the str methods the program uses                         *)

LowerLetters == <<"a","b","c","d","e","f","g","h","i","j","k","l","m","n","o","p","q","r","s","t","u","v","w","x","y","z">>

UpperLetters == <<"A","B","C","D","E","F","G","H","I","J","K","L","M","N","O","P","Q","R","S","T","U","V","W","X","Y","Z">>

Range(s) == {s[i] : i \in 1..Len(s)}

IndexOf(s, c) == CHOOSE i \in 1..Len(s) : s[i] = c

IsLower(c) == c \in Range(LowerLetters)

IsUpper(c) == c \in Range(UpperLetters)

IsCased(c) == IsLower(c) \/ IsUpper(c)

Whitespace == {" ", "\t", "\n"}

LowerChar(c) == IF IsUpper(c) THEN LowerLetters[IndexOf(UpperLetters, c)] ELSE c

UpperChar(c) == IF IsLower(c) THEN UpperLetters[IndexOf(LowerLetters, c)] ELSE c

\* str.lower()
Lower(s) == [i \in 1..Len(s) |-> LowerChar(s[i])]

\* str.upper()
Upper(s) == [i \in 1..Len(s) |-> UpperChar(s[i])]

\* str.title(): a cased character is upper-cased when the character before it
\* is not cased, and lower-cased when it is
RECURSIVE TitleFrom(_, _)
TitleFrom(s, previous_is_cased) ==
    IF s = <<>> THEN <<>>
    ELSE LET c == Head(s)
         IN  <<IF ~IsCased(c) THEN c
               ELSE IF previous_is_cased THEN LowerChar(c) ELSE UpperChar(c)>>
             \o TitleFrom(Tail(s), IsCased(c))

Title(s) == TitleFrom(s, FALSE)

RECURSIVE LStrip(_)
LStrip(s) == IF s # <<>> /\ Head(s) \in Whitespace THEN LStrip(Tail(s)) ELSE s

RECURSIVE RStrip(_)
RStrip(s) ==
    IF s # <<>> /\ s[Len(s)] \in Whitespace THEN RStrip(SubSeq(s, 1, Len(s) - 1)) ELSE s

\* str.strip()
Strip(s) == RStrip(LStrip(s))

\* sep.join(parts)
RECURSIVE Join(_, _)
Join(sep, parts) ==
    IF parts = <<>> THEN <<>>
    ELSE IF Len(parts) = 1 THEN parts[1]
    ELSE parts[1] \o sep \o Join(sep, Tail(parts))

\* needle in text
Contains(text, needle) ==
    \E i \in 0..(Len(text) - Len(needle)) :
        \A j \in 1..Len(needle) : text[i + j] = needle[j]

---------------------------------------------------------------------------
(* AgricultureExpert: the knowledge base                                   *)

KeyRice == <<"r","i","c","e">>

KeyWheat == <<"w","h","e","a","t">>

KeyTomato == <<"t","o","m","a","t","o">>

KeyIrrigation == <<"i","r","r","i","g","a","t","i","o","n">>

KeyPestControl == <<"p","e","s","t"," ","c","o","n","t","r","o","l">>

KeySoilHealth == <<"s","o","i","l"," ","h","e","a","l","t","h">>

ProfileRice ==
    [name |-> <<"R","i","c","e">>,
     season |-> <<"Kharif (June to October)">>,
     water |-> <<"Needs standing water, 5-7 cm depth">>,
     spacing |-> <<"20 cm between plants, 20 cm between rows">>,
     duration |-> <<"120-150 days from sowing to harvest">>]

ProfileWheat ==
    [name |-> <<"W","h","e","a","t">>,
     season |-> <<"Rabi (November to March)">>,
     water |-> <<"4-6 irrigations, avoid waterlogging">>,
     spacing |-> <<"5 cm between plants, 22 cm between rows">>,
     duration |-> <<"110-130 days">>]

ProfileTomato ==
    [name |-> <<"T","o","m","a","t","o">>,
     season |-> <<"Year-round with care">>,
     water |-> <<"Regular watering, avoid wet leaves">>,
     spacing |-> <<"45 cm between plants, 60 cm between rows">>,
     duration |-> <<"90-120 days">>]

SolutionIrrigation ==
    [key_techniques |-> << <<"Drip irrigation">>, <<"Sprinkler systems">>,
                           <<"Rainwater harvesting">> >>,
     steps |-> << <<"Measure soil moisture regularly">>,
                  <<"Water at plant roots, not leaves">>,
                  <<"Water early morning or evening">>,
                  <<"Adjust based on weather conditions">> >>,
     benefits |-> <<"Saves 30-50% water, increases yield by 20-30%">>]

SolutionPestControl ==
    [key_techniques |-> << <<"Integrated Pest Management">>, <<"Neem oil spray">>,
                           <<"Companion planting">> >>,
     steps |-> << <<"Regular field inspection">>,
                  <<"Identify pest type correctly">>,
                  <<"Use natural predators first">>,
                  <<"Apply chemicals only if needed">> >>,
     benefits |-> <<"Reduces chemical use by 40-60%, protects beneficial insects">>]

SolutionSoilHealth ==
    [key_techniques |-> << <<"Organic compost">>, <<"Crop rotation">>,
                           <<"Green manure">> >>,
     steps |-> << <<"Test soil every season">>,
                  <<"Add organic matter regularly">>,
                  <<"Maintain proper pH level">>,
                  <<"Avoid soil compaction">> >>,
     benefits |-> <<"Improves yield by 25-40%, reduces fertilizer need">>]

\* the CROP_INFO dictionary as the class body builds it
CropInfoTable ==
    (KeyRice :> ProfileRice) @@ (KeyWheat :> ProfileWheat) @@ (KeyTomato :> ProfileTomato)

\* the PROBLEM_SOLUTIONS dictionary as the class body builds it
ProblemSolutionsTable ==
    (KeyIrrigation :> SolutionIrrigation) @@ (KeyPestControl :> SolutionPestControl)
        @@ (KeySoilHealth :> SolutionSoilHealth)

DefaultCropProfile(crop_name) ==
    [name |-> Title(crop_name),
     season |-> <<"Adapt to local season">>,
     water |-> <<"Based on local conditions">>,
     spacing |-> <<"Follow seed packet instructions">>,
     duration |-> <<"Varies by variety">>]

DefaultProblemSolution ==
    [key_techniques |-> << <<"Integrated approach">>, <<"Regular monitoring">> >>,
     steps |-> << <<"Assess situation">>, <<"Plan solution">>,
                  <<"Implement carefully">> >>,
     benefits |-> <<"Improved crop health and yield">>]

\* a plausible slip: the key is looked up without lower-casing it
GetCropDetailsCaseSensitive(table, crop_name) ==
    IF crop_name \in DOMAIN table THEN table[crop_name]
    ELSE DefaultCropProfile(crop_name)

\* a plausible slip: a known crop is shown under the name as typed
GetCropDetailsShowsInput(table, crop_name) ==
    LET crop_lower == Lower(crop_name)
    IN  IF crop_lower \in DOMAIN table
        THEN [table[crop_lower] EXCEPT !.name = crop_name]
        ELSE DefaultCropProfile(crop_name)

\* a plausible slip: the default profile shows the name as typed
GetCropDetailsRawName(table, crop_name) ==
    LET crop_lower == Lower(crop_name)
    IN  IF crop_lower \in DOMAIN table THEN table[crop_lower]
        ELSE [DefaultCropProfile(crop_name) EXCEPT !.name = crop_name]

\* AgricultureExpert.get_crop_details, reading the dictionary `table`
GetCropDetails(table, crop_name) ==
    LET crop_lower == Lower(crop_name)
    IN  IF crop_lower \in DOMAIN table THEN table[crop_lower]
        ELSE DefaultCropProfile(crop_name)

\* AgricultureExpert.get_problem_solution, reading the dictionary `table`
GetProblemSolution(table, problem_name) ==
    LET problem_lower == Lower(problem_name)
    IN  IF problem_lower \in DOMAIN table THEN table[problem_lower]
        ELSE DefaultProblemSolution

---------------------------------------------------------------------------
(* AISystem                                                                *)

\* Width of the modelled string hash.  CPython's is 64 bits wide.
HashBits == 6

\* The hash secrets a process may start with are 0..MaxSecret.
MaxSecret == 1

\* ord(c) for the characters the inputs are drawn from
Ord(c) ==
    IF IsLower(c) THEN 96 + IndexOf(LowerLetters, c)
    ELSE IF IsUpper(c) THEN 64 + IndexOf(UpperLetters, c)
    ELSE IF c = " " THEN 32
    ELSE IF c = "-" THEN 45
    ELSE IF c = "\t" THEN 9
    ELSE 10

RECURSIVE HashFrom(_, _)
HashFrom(x, s) ==
    IF s = <<>> THEN x
    ELSE HashFrom((x * 31 + Ord(Head(s))) % (2 ^ HashBits), Tail(s))

\* The builtin hash() of a str.  CPython computes a keyed hash (SipHash) with a
\* secret drawn when the process starts: the result is a signed integer that
\* depends on the secret and on the characters, and on nothing else.  The model
\* keeps exactly that, with a keyed polynomial hash of HashBits bits.
PyHash(secret, s) ==
    LET x == HashFrom(secret, s)
    IN  IF x >= 2 ^ (HashBits - 1) THEN x - 2 ^ HashBits ELSE x

\* a plausible slip: the remainder takes the sign of the hash (as C's % does)
TruncatedMod(a, n) == IF a < 0 THEN 0 - ((0 - a) % n) ELSE a % n

\* Python's a % n for n > 0: the result is in 0..n-1 also for a negative a
PyMod(a, n) == a % n

\* a plausible slip: the second template loses its placeholder
InsightsSecondFixed(crop, region, problem) ==
    << <<"AI analysis suggests focusing on ">> \o region
         \o <<"-specific adaptation for ">> \o crop \o <<".">>,
       <<"Machine learning models indicate integrated approach works best.">>,
       <<"Data patterns show ">> \o crop \o <<" responds well to timely ">>
         \o problem \o <<" management.">>,
       <<"AI recommendation: Combine traditional knowledge with modern techniques.">> >>

\* the list `insights` of generate_ai_insight, after interpolation
Insights(crop, region, problem) ==
    << <<"A","I"," ","a","n","a","l","y","s","i","s"," ","s","u","g","g","e","s","t","s"," ","f","o","c","u","s","i","n","g"," ","o","n"," ">>
         \o region
         \o <<"-","s","p","e","c","i","f","i","c"," ","a","d","a","p","t","a","t","i","o","n"," ","f","o","r"," ">>
         \o crop \o <<".">>,
       <<"M","a","c","h","i","n","e"," ","l","e","a","r","n","i","n","g"," ","m","o","d","e","l","s"," ","i","n","d","i","c","a","t","e"," ","i","n","t","e","g","r","a","t","e","d"," ","a","p","p","r","o","a","c","h"," ","w","o","r","k","s"," ","b","e","s","t"," ","f","o","r"," ">>
         \o problem \o <<".">>,
       <<"D","a","t","a"," ","p","a","t","t","e","r","n","s"," ","s","h","o","w"," ">>
         \o crop
         \o <<" ","r","e","s","p","o","n","d","s"," ","w","e","l","l"," ","t","o"," ","t","i","m","e","l","y"," ">>
         \o problem
         \o <<" ","m","a","n","a","g","e","m","e","n","t",".">>,
       <<"A","I"," ","r","e","c","o","m","m","e","n","d","a","t","i","o","n",":"," ","C","o","m","b","i","n","e"," ","t","r","a","d","i","t","i","o","n","a","l"," ","k","n","o","w","l","e","d","g","e"," ","w","i","t","h"," ","m","o","d","e","r","n"," ","t","e","c","h","n","i","q","u","e","s",".">> >>

\* input_hash of generate_ai_insight: a 0-based index into `insights`
InputHash(secret, crop, region, problem) ==
    PyMod(PyHash(secret, crop \o region \o problem), Len(Insights(crop, region, problem)))

\* list[i] for a 0-based i; a negative i counts from the end of the list
PyIndex(list, i) == IF i < 0 THEN list[Len(list) + i + 1] ELSE list[i + 1]

\* AISystem.generate_ai_insight in a process whose hash secret is `secret`
GenerateAiInsight(secret, crop, region, problem) ==
    PyIndex(Insights(crop, region, problem), InputHash(secret, crop, region, problem))

\* AISystem.check_ai_availability
CheckAiAvailability == TRUE

---------------------------------------------------------------------------
(* TrainingModuleBuilder                                                   *)

\* Python values that can reach a format field: a str, None, or a number (whose
\* field `s` holds its decimal digits)
StrValue(s) == [kind |-> "str", s |-> s]

NoneValue == [kind |-> "null", s |-> <<>>]

NumValue(digits) == [kind |-> "num", s |-> digits]

\* what an f-string field shows for a value: format(v)
Format(v) == IF v.kind = "null" THEN <<"N","o","n","e">> ELSE v.s

\* the default of parameter `language` of create_module, and of
\* request_data.get('language', ...)
DefaultLanguage == StrValue(<<"E","n","g","l","i","s","h">>)

Digits == <<"0","1","2","3","4","5","6","7","8","9">>

TwoDigits(n) == <<Digits[(n \div 10) + 1], Digits[(n % 10) + 1]>>

\* current_time.strftime("%d %B %Y, %I:%M %p") for a clock reading of `now`
\* minutes since midnight; the date is one chunk, the clock models one day
FormatTime(now) ==
    LET hour == (now \div 60) % 24
        hour12 == IF hour % 12 = 0 THEN 12 ELSE hour % 12
    IN  <<"%d %B %Y", ",", " ">> \o TwoDigits(hour12) \o <<":">> \o TwoDigits(now % 60)
            \o <<" ", IF hour < 12 THEN "AM" ELSE "PM">>

\* the separator ' (bullet) ' of the techniques line; the bullet is U+2022
TechniqueSeparator == <<" ", "(bullet)", " ">>

StepLines(steps) == [i \in 1..Len(steps) |-> <<"   - ">> \o steps[i]]

\* the f-string module_content of create_module
ModuleContent(crop_info, problem_solution, ai_available, ai_insight, region, problem, language, formatted_time) ==
    <<"\n", "# FARMER TRAINING MODULE", "## Crop: ">> \o crop_info.name
    \o <<" | Region: ">> \o region \o <<" | Language: ">> \o Format(language)
    \o <<"### GENERATED ON: ">> \o formatted_time
    \o <<"---", "## ABOUT THIS CROP", "**Crop Name:** ">> \o crop_info.name
    \o <<"**Best Season:** ">> \o crop_info.season
    \o <<"**Water Needs:** ">> \o crop_info.water
    \o <<"**Plant Spacing:** ">> \o crop_info.spacing
    \o <<"**Growth Duration:** ">> \o crop_info.duration
    \o <<"---", "## FOCUS AREA: ">> \o Upper(problem)
    \o <<"### AI-GENERATED INSIGHT:">>
    \o (IF ai_insight # <<>> THEN ai_insight
        ELSE <<"System analysis recommends integrated management approach.">>)
    \o <<"### RECOMMENDED TECHNIQUES:">>
    \o Join(TechniqueSeparator, problem_solution.key_techniques)
    \o <<"### STEP-BY-STEP GUIDE:", "1. **Week 1-2: Assessment & Planning**",
         "   - Evaluate current ">> \o problem
    \o <<" conditions", "   - Gather necessary tools and resources",
         "   - Create implementation schedule", "2. **Week 3-8: Implementation**",
         "   ">>
    \o Join(<<"\n">>, StepLines(problem_solution.steps))
    \o <<"   - Monitor progress weekly", "   - Make adjustments as needed",
         "3. **Week 9-12: Evaluation**", "   - Measure results and improvements",
         "   - Document lessons learned", "   - Share knowledge with other farmers",
         "### KEY BENEFITS:">> \o problem_solution.benefits
    \o <<"### REGION-SPECIFIC ADVICE FOR ">> \o Upper(region)
    \o <<":", "- Consider local weather patterns",
         "- Adapt to soil conditions in your area",
         "- Consult local agriculture department",
         "- Join local farmer groups for support",
         "---", "## EXPECTED RESULTS", "### QUANTITATIVE IMPROVEMENTS:", "- ">>
    \o problem
    \o <<" management: 40-60% better", "- Crop yield increase: 20-35%",
         "- Input cost reduction: 15-25%", "- Labor efficiency: 20-30% improvement",
         "### QUALITATIVE BENEFITS: (4 fixed lines)",
         "---", "## IMPLEMENTATION TIPS", "### DO'S: (5 fixed lines)",
         "### DON'TS: (5 fixed lines)",
         "---", "## FREQUENTLY ASKED QUESTIONS", "(4 fixed questions and answers)",
         "---", "## SYSTEM INFORMATION", "### TECHNOLOGY USED: (4 fixed lines)",
         "### GENERATION DETAILS:", "- Module Created: ">> \o formatted_time
    \o <<"- AI Assistance: ", IF ai_available THEN "Available" ELSE "Not available",
         "- Content Type: Personalized farming guidance",
         "- System Status: Operational",
         "---", "## GETTING HELP", "### LOCAL RESOURCES:", "- Contact ">> \o region
    \o <<" Agriculture Department", "(3 fixed lines)",
         "### DIGITAL TOOLS: (4 fixed lines)", "---",
         "*This training module was generated automatically based on agricultural best practices.*",
         "*Always consult local agricultural experts before implementing new techniques.*",
         "\n">>

\* a plausible slip: the metadata carries the resolved display name of the crop
ModuleMetadataResolved(formatted_time, crop_info, crop, region, problem, language, ai_available) ==
    [generation_time |-> formatted_time, crop |-> crop_info.name, region |-> region,
     problem |-> problem, language |-> language, ai_used |-> ai_available]

\* the "metadata" dictionary create_module returns
ModuleMetadata(formatted_time, crop_info, crop, region, problem, language, ai_available) ==
    [generation_time |-> formatted_time, crop |-> crop, region |-> region,
     problem |-> problem, language |-> language, ai_used |-> ai_available]

\* a plausible slip: the FAQ section is missing from the document
ModuleDataNoFaq(formatted_time, crop_info, problem_solution, ai_available, ai_insight, crop, region, problem, language) ==
    [content |-> SelectSeq(Strip(ModuleContent(crop_info, problem_solution,
                                               ai_available, ai_insight, region,
                                               problem, language, formatted_time)),
                           LAMBDA chunk : chunk \notin {"## FREQUENTLY ASKED QUESTIONS",
                                                        "(4 fixed questions and answers)"}),
     metadata |-> ModuleMetadata(formatted_time, crop_info, crop, region, problem,
                                 language, ai_available)]

\* the dictionary create_module returns, from its locals
ModuleData(formatted_time, crop_info, problem_solution, ai_available, ai_insight, crop, region, problem, language) ==
    [content |-> Strip(ModuleContent(crop_info, problem_solution, ai_available,
                                     ai_insight, region, problem, language,
                                     formatted_time)),
     metadata |-> ModuleMetadata(formatted_time, crop_info, crop, region, problem,
                                 language, ai_available)]

\* TrainingModuleBuilder.create_module run without interruption: in a process
\* with the given dictionaries and hash secret, at clock reading `now`
CreateModule(crop_table, problem_table, secret, now, crop, region, problem, language) ==
    LET formatted_time == FormatTime(now)
        crop_info == GetCropDetails(crop_table, crop)
        problem_solution == GetProblemSolution(problem_table, problem)
        ai_available == CheckAiAvailability
        ai_insight == IF ai_available
                      THEN GenerateAiInsight(secret, crop, region, problem)
                      ELSE <<>>
    IN  ModuleData(formatted_time, crop_info, problem_solution, ai_available,
                   ai_insight, crop, region, problem, language)

---------------------------------------------------------------------------
(* Inputs                                                                  *)

\* Longest name enumerated exhaustively over NameAlphabet
MaxNameLen == 3

\* Minutes the clock may advance during a run
MaxTicks == 1

NameAlphabet == {"r", "I", " ", "-"}

RECURSIVE StringsOfLen(_, _)
StringsOfLen(alphabet, n) ==
    IF n = 0 THEN {<<>>}
    ELSE {<<c>> \o s : c \in alphabet, s \in StringsOfLen(alphabet, n - 1)}

StringsUpTo(alphabet, n) == UNION {StringsOfLen(alphabet, k) : k \in 0..n}

\* every upper/lower-case spelling of a key
RECURSIVE CaseVariants(_)
CaseVariants(key) ==
    IF key = <<>> THEN {<<>>}
    ELSE {<<c>> \o s : c \in {LowerChar(Head(key)), UpperChar(Head(key))},
                       s \in CaseVariants(Tail(key))}

SampleNames ==
    { <<"q","u","i","n","o","a">>, <<"Q","u","i","n","o","a">>,
      <<"s","w","e","e","t"," ","c","o","r","n">>,
      <<"d","r","o","u","g","h","t"," ","s","t","r","e","s","s">>,
      <<" ","R","i","c","e"," ">>, <<"r","i","c","e","-","w","h","e","a","t">> }

CropNames ==
    UNION {CaseVariants(k) : k \in DOMAIN CropInfoTable}
        \cup StringsUpTo(NameAlphabet, MaxNameLen) \cup SampleNames

ProblemNames ==
    UNION {CaseVariants(k) : k \in DOMAIN ProblemSolutionsTable}
        \cup StringsUpTo(NameAlphabet, MaxNameLen) \cup SampleNames

ModuleCrops ==
    { <<"R","i","c","e">>, <<"r","I","C","E">>, <<"W","H","E","A","T">>,
      <<"t","o","m","a","t","o">>, <<"q","u","i","n","o","a">>,
      <<"Q","u","i","n","o","a">>, <<"s","w","e","e","t"," ","c","o","r","n">> }

ModuleRegions == { <<"P","u","n","j","a","b">>, <<"p","u","n","j","a","b">>, <<"K","e","r","a","l","a">> }

ModuleProblems ==
    { <<"i","r","r","i","g","a","t","i","o","n">>,
      <<"P","e","s","t"," ","C","o","n","t","r","o","l">>,
      <<"S","O","I","L"," ","H","E","A","L","T","H">>,
      <<"d","r","o","u","g","h","t"," ","s","t","r","e","s","s">> }

\* the language argument left out of the call
Omitted == [kind |-> "omitted", s |-> <<>>]

ModuleLanguages ==
    { Omitted, StrValue(<<"E","n","g","l","i","s","h">>),
      StrValue(<<"H","i","n","d","i">>), NoneValue }

InsightCrops == { <<"R","i","c","e">>, <<"q","u","i","n","o","a">> }

InsightRegions == { <<"P","u","n","j","a","b">>, <<"K","e","r","a","l","a">> }

InsightProblems ==
    { <<"i","r","r","i","g","a","t","i","o","n">>,
      <<"d","r","o","u","g","h","t"," ","s","t","r","e","s","s">> }

\* 11:59 AM
ClockStart == 11 * 60 + 59

---------------------------------------------------------------------------
(* Direct calls of the functions                                           *)

Workers == {"w1", "w2"}

NoValue == [kind |-> "none"]

InitProcess ==
    /\ CROP_INFO = CropInfoTable
    /\ PROBLEM_SOLUTIONS = ProblemSolutionsTable
    /\ hashSecret \in 0..MaxSecret
    /\ clock = ClockStart
    /\ insightLog = {}

InitHandlerIdle ==
    /\ pc = [w \in Workers |-> "idle"]
    /\ request_data = [w \in Workers |-> NoValue]
    /\ frame = [w \in Workers |-> NoValue]
    /\ response = [w \in Workers |-> NoValue]

InitNoCall ==
    /\ fn = "none"
    /\ args = NoValue
    /\ ret = NoValue

handlerVars == <<pc, request_data, frame, response>>

callVars == <<fn, args, ret>>

processVars == <<CROP_INFO, PROBLEM_SOLUTIONS, hashSecret>>

CallGetCropDetails ==
    /\ fn = "none"
    /\ \E crop_name \in CropNames :
        /\ fn' = "get_crop_details"
        /\ args' = [name |-> crop_name]
        /\ ret' = GetCropDetails(CROP_INFO, crop_name)
    /\ UNCHANGED <<processVars, clock, handlerVars, insightLog>>

CallGetProblemSolution ==
    /\ fn = "none"
    /\ \E problem_name \in ProblemNames :
        /\ fn' = "get_problem_solution"
        /\ args' = [name |-> problem_name]
        /\ ret' = GetProblemSolution(PROBLEM_SOLUTIONS, problem_name)
    /\ UNCHANGED <<processVars, clock, handlerVars, insightLog>>

CallGenerateAiInsight ==
    /\ fn = "none"
    /\ \E crop \in InsightCrops, region \in InsightRegions, problem \in InsightProblems :
        /\ fn' = "generate_ai_insight"
        /\ args' = [crop |-> crop, region |-> region, problem |-> problem,
                    input_hash |-> InputHash(hashSecret, crop, region, problem),
                    hash |-> PyHash(hashSecret, crop \o region \o problem),
                    again |-> \E e \in insightLog : e[1] = <<crop, region, problem>>]
        /\ ret' = GenerateAiInsight(hashSecret, crop, region, problem)
        /\ insightLog' = insightLog \cup
              {<< <<crop, region, problem>>,
                  GenerateAiInsight(hashSecret, crop, region, problem) >>}
    /\ UNCHANGED <<processVars, clock, handlerVars>>

CallCreateModule ==
    /\ fn = "none"
    /\ \E crop \in ModuleCrops, region \in ModuleRegions, problem \in ModuleProblems,
          language \in ModuleLanguages :
        /\ fn' = "create_module"
        /\ args' = [crop |-> crop, region |-> region, problem |-> problem,
                    language |-> language]
        /\ ret' = CreateModule(CROP_INFO, PROBLEM_SOLUTIONS, hashSecret, clock,
                               crop, region, problem,
                               IF language = Omitted THEN DefaultLanguage ELSE language)
    /\ UNCHANGED <<processVars, clock, handlerVars, insightLog>>

Return ==
    /\ fn # "none"
    /\ fn' = "none"
    /\ args' = NoValue
    /\ ret' = NoValue
    /\ UNCHANGED <<processVars, clock, handlerVars, insightLog>>

\* the wall clock advances
Tick ==
    /\ clock < ClockStart + MaxTicks
    /\ clock' = clock + 1
    /\ UNCHANGED <<processVars, handlerVars, callVars, insightLog>>

\* the server process is started again: a new hash secret, nothing remembered
RestartProcess ==
    /\ fn = "none"
    /\ hashSecret' \in 0..MaxSecret
    /\ insightLog' = {}
    /\ UNCHANGED <<CROP_INFO, PROBLEM_SOLUTIONS, clock, handlerVars, callVars>>

InitLookup == InitProcess /\ hashSecret = 0 /\ InitHandlerIdle /\ InitNoCall

NextLookup == CallGetCropDetails \/ CallGetProblemSolution \/ Return

SpecLookup == InitLookup /\ [][NextLookup]_vars

InitInsight == InitProcess /\ InitHandlerIdle /\ InitNoCall

NextInsight == CallGenerateAiInsight \/ Return \/ RestartProcess

SpecInsight == InitInsight /\ [][NextInsight]_vars

InitModule == InitProcess /\ InitHandlerIdle /\ InitNoCall

NextModule == CallCreateModule \/ Return \/ Tick

SpecModule == InitModule /\ [][NextModule]_vars

---------------------------------------------------------------------------
(* The /generate route: generate_training_module                           *)

\* a key the JSON object does not have
Absent == [kind |-> "absent", s |-> <<>>]

\* request.get_json() returned a JSON object with these members
ObjectBody(crop, region, problem, language) ==
    [kind |-> "object", crop |-> crop, region |-> region, problem |-> problem,
     language |-> language]

\* request.get_json() returned None: the body was the JSON value null
NullBody == [kind |-> "null"]

BodyCrops ==
    { Absent, StrValue(<<>>), StrValue(<<" ","r","I","C","E"," ">>),
      StrValue(<<"q","u","i","n","o","a">>) }

BodyRegions == { NoneValue, StrValue(<<" "," ">>), StrValue(<<"P","u","n","j","a","b">>) }

BodyProblems == { Absent, StrValue(<<"i","r","r","i","g","a","t","i","o","n">>) }

BodyLanguages == { Absent, NumValue(<<"5">>) }

Bodies ==
    {NullBody} \cup
    { ObjectBody(c, r, p, l) :
        c \in BodyCrops, r \in BodyRegions, p \in BodyProblems, l \in BodyLanguages }

\* request_data.get(key, default)
DictGet(body, key, default) == IF body[key] = Absent THEN default ELSE body[key]

\* lines 324-327 raise AttributeError: request_data has no get(), or a value
\* that .strip() is called on is not a str
ExtractionRaises(body) ==
    \/ body.kind # "object"
    \/ \E key \in {"crop", "region", "problem"} :
          DictGet(body, key, StrValue(<<>>)).kind # "str"

\* the response of lines 331-334
ValidationFailure ==
    [status |-> 400, success |-> FALSE,
     error |-> "Please fill in all fields: Crop, Region, and Problem"]

\* a plausible slip: the handler tells the caller what went wrong
InternalFaultWithCause(error) ==
    [status |-> 500, success |-> FALSE,
     error |-> "Could not generate training module. Please try again.",
     detail |-> error]

\* the response of the except branch, lines 365-371, for the exception `error`
InternalFault(error) ==
    [status |-> 500, success |-> FALSE,
     error |-> "Could not generate training module. Please try again."]

\* the response of lines 349-363
Success(module_data, crop_type, region_name, problem_type, language_pref) ==
    [status |-> 200, success |-> TRUE,
     data |-> [title |-> Title(crop_type) \o <<" Farming Training Module">>,
               subtitle |-> <<"Region: ">> \o region_name \o <<" | Focus: ">>
                               \o Title(problem_type),
               content |-> module_data.content,
               language |-> language_pref],
     system_info |-> [generated_at |-> module_data.metadata.generation_time,
                      ai_assistance |-> module_data.metadata.ai_used]]

\* a plausible slip: get_crop_details remembers the default profile it built
CropInfoCachingDefault(table, crop_name) ==
    IF Lower(crop_name) \in DOMAIN table THEN table
    ELSE table @@ (Lower(crop_name) :> DefaultCropProfile(crop_name))

\* CROP_INFO after a call of get_crop_details: the function only reads it
CropInfoAfterLookup(table, crop_name) == table

\* the worker's record of how the request went: the exception raised, where,
\* whether create_module was entered, and the clock reading it took
Progress(error, at, core, now) == [error |-> error, at |-> at, core |-> core, now |-> now]

NotRead == 0 - 1

\* line 321: request.get_json() returns the parsed body
GetJson(w) ==
    /\ pc[w] = "idle"
    /\ \E body \in Bodies : request_data' = [request_data EXCEPT ![w] = body]
    /\ pc' = [pc EXCEPT ![w] = "extract"]
    /\ frame' = [frame EXCEPT ![w] = Progress("none", "none", FALSE, NotRead)]
    /\ UNCHANGED <<processVars, clock, response, callVars, insightLog>>

\* line 321: request.get_json() raises (no JSON content type, malformed JSON);
\* the except branch answers
GetJsonRaises(w) ==
    /\ pc[w] = "idle"
    /\ request_data' = [request_data EXCEPT ![w] = [kind |-> "unparsed"]]
    /\ pc' = [pc EXCEPT ![w] = "done"]
    /\ frame' = [frame EXCEPT ![w] = Progress("BadRequest", "get_json", FALSE, NotRead)]
    /\ response' = [response EXCEPT ![w] = InternalFault("BadRequest")]
    /\ UNCHANGED <<processVars, clock, callVars, insightLog>>

\* lines 324-334: the fields are read and trimmed, and checked
ExtractAndValidate(w) ==
    /\ pc[w] = "extract"
    /\ LET body == request_data[w]
       IN  IF ExtractionRaises(body)
           THEN /\ pc' = [pc EXCEPT ![w] = "done"]
                /\ frame' = [frame EXCEPT ![w] =
                                Progress("AttributeError", "extract", FALSE, NotRead)]
                /\ response' = [response EXCEPT ![w] = InternalFault("AttributeError")]
           ELSE LET crop_type == Strip(DictGet(body, "crop", StrValue(<<>>)).s)
                    region_name == Strip(DictGet(body, "region", StrValue(<<>>)).s)
                    problem_type == Strip(DictGet(body, "problem", StrValue(<<>>)).s)
                    language_pref == DictGet(body, "language", DefaultLanguage)
                IN  IF crop_type = <<>> \/ region_name = <<>> \/ problem_type = <<>>
                    THEN /\ pc' = [pc EXCEPT ![w] = "done"]
                         /\ response' = [response EXCEPT ![w] = ValidationFailure]
                         /\ frame' = frame
                    ELSE /\ pc' = [pc EXCEPT ![w] = "now"]
                         /\ response' = response
                         /\ frame' = [frame EXCEPT ![w] =
                               [error |-> "none", at |-> "none", core |-> TRUE,
                                now |-> NotRead,
                                crop_type |-> crop_type, region_name |-> region_name,
                                problem_type |-> problem_type,
                                language_pref |-> language_pref]]
    /\ UNCHANGED <<processVars, clock, request_data, callVars, insightLog>>

\* lines 142-143 of create_module
ReadClock(w) ==
    /\ pc[w] = "now"
    /\ frame' = [frame EXCEPT ![w] =
                    [now |-> clock, formatted_time |-> FormatTime(clock)] @@ frame[w]]
    /\ pc' = [pc EXCEPT ![w] = "crop"]
    /\ UNCHANGED <<processVars, clock, request_data, response, callVars, insightLog>>

\* line 146 of create_module
LookupCrop(w) ==
    /\ pc[w] = "crop"
    /\ frame' = [frame EXCEPT ![w] =
                    [crop_info |-> GetCropDetails(CROP_INFO, frame[w].crop_type)]
                        @@ frame[w]]
    /\ CROP_INFO' = CropInfoAfterLookup(CROP_INFO, frame[w].crop_type)
    /\ pc' = [pc EXCEPT ![w] = "problem"]
    /\ UNCHANGED <<PROBLEM_SOLUTIONS, hashSecret, clock, request_data, response,
                   callVars, insightLog>>

\* line 147 of create_module
LookupProblem(w) ==
    /\ pc[w] = "problem"
    /\ frame' = [frame EXCEPT ![w] =
                    [problem_solution |->
                        GetProblemSolution(PROBLEM_SOLUTIONS, frame[w].problem_type)]
                        @@ frame[w]]
    /\ pc' = [pc EXCEPT ![w] = "insight"]
    /\ UNCHANGED <<processVars, clock, request_data, response, callVars, insightLog>>

\* lines 150-153 of create_module
AiInsight(w) ==
    /\ pc[w] = "insight"
    /\ LET ai_available == CheckAiAvailability
       IN  frame' = [frame EXCEPT ![w] =
                [ai_available |-> ai_available,
                 ai_insight |-> IF ai_available
                                THEN GenerateAiInsight(hashSecret, frame[w].crop_type,
                                                       frame[w].region_name,
                                                       frame[w].problem_type)
                                ELSE <<>>] @@ frame[w]]
    /\ pc' = [pc EXCEPT ![w] = "build"]
    /\ UNCHANGED <<processVars, clock, request_data, response, callVars, insightLog>>

\* lines 156-305 of create_module, and the assignment of line 344
BuildModule(w) ==
    /\ pc[w] = "build"
    /\ LET f == frame[w]
       IN  frame' = [frame EXCEPT ![w] =
                [module_data |->
                    ModuleData(f.formatted_time, f.crop_info, f.problem_solution,
                               f.ai_available, f.ai_insight, f.crop_type,
                               f.region_name, f.problem_type, f.language_pref)]
                    @@ f]
    /\ pc' = [pc EXCEPT ![w] = "respond"]
    /\ UNCHANGED <<processVars, clock, request_data, response, callVars, insightLog>>

\* lines 349-363
Respond(w) ==
    /\ pc[w] = "respond"
    /\ LET f == frame[w]
       IN  /\ response' = [response EXCEPT ![w] =
                  Success(f.module_data, f.crop_type, f.region_name, f.problem_type,
                          f.language_pref)]
           /\ frame' = [frame EXCEPT ![w] = Progress("none", "none", TRUE, f.now)]
    /\ pc' = [pc EXCEPT ![w] = "done"]
    /\ UNCHANGED <<processVars, clock, request_data, callVars, insightLog>>

\* an unexpected exception (such as MemoryError) while lines 337-363 run; the
\* except branch answers
Fault(w) ==
    /\ pc[w] \in {"now", "crop", "problem", "insight", "build", "respond"}
    /\ response' = [response EXCEPT ![w] = InternalFault("MemoryError")]
    /\ frame' = [frame EXCEPT ![w] = Progress("MemoryError", pc[w], TRUE, NotRead)]
    /\ pc' = [pc EXCEPT ![w] = "done"]
    /\ UNCHANGED <<processVars, clock, request_data, callVars, insightLog>>

\* the response is sent and the worker takes the next request
Finish(w) ==
    /\ pc[w] = "done"
    /\ pc' = [pc EXCEPT ![w] = "idle"]
    /\ request_data' = [request_data EXCEPT ![w] = NoValue]
    /\ frame' = [frame EXCEPT ![w] = NoValue]
    /\ response' = [response EXCEPT ![w] = NoValue]
    /\ UNCHANGED <<processVars, clock, callVars, insightLog>>

Init == InitProcess /\ InitHandlerIdle /\ InitNoCall

Next ==
    \/ Tick
    \/ \E w \in Workers :
          \/ GetJson(w)
          \/ GetJsonRaises(w)
          \/ ExtractAndValidate(w)
          \/ ReadClock(w)
          \/ LookupCrop(w)
          \/ LookupProblem(w)
          \/ AiInsight(w)
          \/ BuildModule(w)
          \/ Respond(w)
          \/ Fault(w)
          \/ Finish(w)

Spec == Init /\ [][Next]_vars

\* generate_training_module run alone on the outcome of get_json, with the
\* clock reading `now` and with or without an unexpected exception
HandleAlone(secret, outcome, now, faulted) ==
    IF outcome.kind = "unparsed" THEN InternalFault("BadRequest")
    ELSE IF ExtractionRaises(outcome) THEN InternalFault("AttributeError")
    ELSE LET crop_type == Strip(DictGet(outcome, "crop", StrValue(<<>>)).s)
             region_name == Strip(DictGet(outcome, "region", StrValue(<<>>)).s)
             problem_type == Strip(DictGet(outcome, "problem", StrValue(<<>>)).s)
             language_pref == DictGet(outcome, "language", DefaultLanguage)
         IN  IF crop_type = <<>> \/ region_name = <<>> \/ problem_type = <<>>
             THEN ValidationFailure
             ELSE IF faulted THEN InternalFault("MemoryError")
             ELSE Success(CreateModule(CropInfoTable, ProblemSolutionsTable, secret,
                                       now, crop_type, region_name, problem_type,
                                       language_pref),
                          crop_type, region_name, problem_type, language_pref)

---------------------------------------------------------------------------
(* Properties                                                              *)

\* name spells key, letter by letter, in some mix of upper and lower case
IsCaseVariant(name, key) ==
    /\ Len(name) = Len(key)
    /\ \A i \in 1..Len(key) : name[i] \in {key[i], UpperChar(key[i])}

\* title case, position by position: a letter that starts a word is upper
\* case, every other letter is lower case
TitleCased(s) ==
    [i \in 1..Len(s) |->
        IF i = 1 \/ ~IsCased(s[i - 1]) THEN UpperChar(s[i]) ELSE LowerChar(s[i])]

\* the text between the first chunk `before` and the next chunk `after`
Slot(text, before, after) ==
    LET i == CHOOSE i \in 1..Len(text) : text[i] = before
        j == CHOOSE j \in (i + 1)..Len(text) :
                /\ text[j] = after
                /\ \A k \in (i + 1)..(j - 1) : text[k] # after
    IN  SubSeq(text, i + 1, j - 1)

\* C4: for every recognized crop key and every recognized problem key, and for
\* every upper/lower-case spelling of that key, get_crop_details /
\* get_problem_solution returns exactly the profile stored under that key.
C4_KnownKeyReturnsStoredProfile ==
    /\ fn = "get_crop_details" =>
          \A key \in DOMAIN CropInfoTable :
              IsCaseVariant(args.name, key) => ret = CropInfoTable[key]
    /\ fn = "get_problem_solution" =>
          \A key \in DOMAIN ProblemSolutionsTable :
              IsCaseVariant(args.name, key) => ret = ProblemSolutionsTable[key]

\* C4 witness: a mixed-case spelling of "wheat" was looked up
C4_Witness ==
    /\ fn = "get_crop_details"
    /\ args.name = <<"w","H","e","A","t">>
    /\ ret = ProfileWheat

\* C5: for every name whose lower-cased form is no known key, get_crop_details
\* returns the default profile named by the title-cased input with the four
\* fixed texts, and get_problem_solution returns the fixed default profile.
C5_UnknownNameReturnsDefault ==
    /\ (fn = "get_crop_details" /\ Lower(args.name) \notin DOMAIN CropInfoTable) =>
          ret = [name |-> TitleCased(args.name),
                 season |-> <<"Adapt to local season">>,
                 water |-> <<"Based on local conditions">>,
                 spacing |-> <<"Follow seed packet instructions">>,
                 duration |-> <<"Varies by variety">>]
    /\ (fn = "get_problem_solution"
            /\ Lower(args.name) \notin DOMAIN ProblemSolutionsTable) =>
          ret = [key_techniques |-> << <<"Integrated approach">>,
                                       <<"Regular monitoring">> >>,
                 steps |-> << <<"Assess situation">>, <<"Plan solution">>,
                              <<"Implement carefully">> >>,
                 benefits |-> <<"Improved crop health and yield">>]

\* C5 witness: an unknown two-word crop was looked up
C5_Witness ==
    /\ fn = "get_crop_details"
    /\ args.name = <<"s","w","e","e","t"," ","c","o","r","n">>
    /\ ret.name = <<"S","w","e","e","t"," ","C","o","r","n">>

\* C6: within one process, calls of generate_ai_insight with the same
\* arguments return the same string; the index is in 0..3; the result is the
\* template at that index.
C6_InsightDeterministic ==
    /\ \A e1, e2 \in insightLog : e1[1] = e2[1] => e1[2] = e2[2]
    /\ fn = "generate_ai_insight" =>
          /\ args.input_hash \in 0..3
          /\ ret = Insights(args.crop, args.region, args.problem)[args.input_hash + 1]

\* C6 witness: a call repeated within the process, on a negative hash
C6_Witness ==
    /\ fn = "generate_ai_insight"
    /\ args.again
    /\ args.hash < 0

\* C10 as claimed: the returned insight contains at least one of the three
\* input values.
C10_Original ==
    fn = "generate_ai_insight" =>
        \/ Contains(ret, args.crop)
        \/ Contains(ret, args.region)
        \/ Contains(ret, args.problem)

\* C10 amended: the templates at index 0, 1 and 2 embed region and crop, the
\* problem, and crop and problem; the template at index 3 is a fixed sentence.
C10_ThreeTemplatesEmbedInputs ==
    fn = "generate_ai_insight" =>
        /\ args.input_hash = 0 =>
              Contains(ret, args.region) /\ Contains(ret, args.crop)
        /\ args.input_hash = 1 => Contains(ret, args.problem)
        /\ args.input_hash = 2 =>
              Contains(ret, args.crop) /\ Contains(ret, args.problem)
        /\ args.input_hash = 3 =>
              ret = <<"A","I"," ","r","e","c","o","m","m","e","n","d","a","t","i","o","n",":"," ","C","o","m","b","i","n","e"," ","t","r","a","d","i","t","i","o","n","a","l"," ","k","n","o","w","l","e","d","g","e"," ","w","i","t","h"," ","m","o","d","e","r","n"," ","t","e","c","h","n","i","q","u","e","s",".">>

\* C10 witness: the second template was selected and shows the problem
C10_Witness ==
    /\ fn = "generate_ai_insight"
    /\ args.input_hash = 1
    /\ Contains(ret, args.problem)

SectionMarkers ==
    { "## ABOUT THIS CROP", "## FOCUS AREA: ", "### RECOMMENDED TECHNIQUES:",
      "### STEP-BY-STEP GUIDE:", "## EXPECTED RESULTS", "## IMPLEMENTATION TIPS",
      "## FREQUENTLY ASKED QUESTIONS", "## SYSTEM INFORMATION" }

\* C3: for every input the content create_module returns is non-empty and
\* contains all eight section markers.
C3_ContentHasAllSections ==
    fn = "create_module" =>
        /\ ret.content # <<>>
        /\ \A marker \in SectionMarkers : Contains(ret.content, <<marker>>)

\* C3 witness: a module for a crop and a problem the knowledge base lacks
C3_Witness ==
    /\ fn = "create_module"
    /\ args.crop = <<"Q","u","i","n","o","a">>
    /\ args.problem = <<"d","r","o","u","g","h","t"," ","s","t","r","e","s","s">>
    /\ Contains(ret.content, <<"## SYSTEM INFORMATION">>)
    /\ Contains(ret.content, <<"Integrated approach">>)

\* the name under which a crop is shown: the stored name of a known key, the
\* title-cased input otherwise
DisplayName(crop) ==
    IF \E key \in DOMAIN CropInfoTable : IsCaseVariant(crop, key)
    THEN CropInfoTable[CHOOSE key \in DOMAIN CropInfoTable : IsCaseVariant(crop, key)].name
    ELSE TitleCased(crop)

\* C7: the metadata carries crop, region and problem as given, the language
\* given or "English" when none is given, and ai_used true; the content
\* contains the crop's name, the region and the techniques list of the
\* resolved problem profile.
C7_MetadataAndContentCarryInputs ==
    fn = "create_module" =>
        /\ ret.metadata.crop = args.crop
        /\ ret.metadata.region = args.region
        /\ ret.metadata.problem = args.problem
        /\ ret.metadata.language =
              IF args.language = Omitted
              THEN StrValue(<<"E","n","g","l","i","s","h">>) ELSE args.language
        /\ ret.metadata.ai_used = TRUE
        /\ Contains(ret.content, DisplayName(args.crop))
        /\ Contains(ret.content, args.region)
        /\ Contains(ret.content,
                    Join(<<" ", "(bullet)", " ">>,
                         GetProblemSolution(ProblemSolutionsTable,
                                            args.problem).key_techniques))

\* C7 witness: Rice, Punjab, irrigation, no language given
C7_Witness ==
    /\ fn = "create_module"
    /\ args.crop = <<"R","i","c","e">>
    /\ args.region = <<"P","u","n","j","a","b">>
    /\ args.problem = <<"i","r","r","i","g","a","t","i","o","n">>
    /\ args.language = Omitted
    /\ ret.metadata.language.s = <<"E","n","g","l","i","s","h">>
    /\ Contains(ret.content, <<"Drip irrigation">>)

\* C9 as claimed: the crop, region and problem shown in the header, the crop
\* facts, the focus area and the region advice, and carried in the metadata,
\* are the caller's strings with their casing unchanged.
C9_Original ==
    fn = "create_module" =>
        /\ Slot(ret.content, "## Crop: ", " | Region: ") = args.crop
        /\ Slot(ret.content, " | Region: ", " | Language: ") = args.region
        /\ Slot(ret.content, "**Crop Name:** ", "**Best Season:** ") = args.crop
        /\ Slot(ret.content, "## FOCUS AREA: ", "### AI-GENERATED INSIGHT:") = args.problem
        /\ Slot(ret.content, "### REGION-SPECIFIC ADVICE FOR ", ":") = args.region
        /\ ret.metadata.crop = args.crop
        /\ ret.metadata.region = args.region
        /\ ret.metadata.problem = args.problem

\* C9 amended: the metadata, the header's region, the step guide's and the
\* results' problem and the help section's region are the caller's strings
\* unchanged; the header and the crop facts show the crop's display name; the
\* focus area shows the problem in upper case and the region advice the region
\* in upper case.
C9_DisplayedCasing ==
    fn = "create_module" =>
        /\ Slot(ret.content, "## Crop: ", " | Region: ") = DisplayName(args.crop)
        /\ Slot(ret.content, "**Crop Name:** ", "**Best Season:** ") = DisplayName(args.crop)
        /\ Slot(ret.content, " | Region: ", " | Language: ") = args.region
        /\ Slot(ret.content, "## FOCUS AREA: ", "### AI-GENERATED INSIGHT:")
              = [i \in 1..Len(args.problem) |-> UpperChar(args.problem[i])]
        /\ Slot(ret.content, "### REGION-SPECIFIC ADVICE FOR ", ":")
              = [i \in 1..Len(args.region) |-> UpperChar(args.region[i])]
        /\ Slot(ret.content, "   - Evaluate current ", " conditions") = args.problem
        /\ Slot(ret.content, "- ", " management: 40-60% better") = args.problem
        /\ Slot(ret.content, "- Contact ", " Agriculture Department") = args.region
        /\ ret.metadata.crop = args.crop
        /\ ret.metadata.region = args.region
        /\ ret.metadata.problem = args.problem

\* C9 witness: a module for "rICE" in "punjab" on "Pest Control"
C9_Witness ==
    /\ fn = "create_module"
    /\ args.crop = <<"r","I","C","E">>
    /\ args.region = <<"p","u","n","j","a","b">>
    /\ args.problem = <<"P","e","s","t"," ","C","o","n","t","r","o","l">>
    /\ Slot(ret.content, "## Crop: ", " | Region: ") = <<"R","i","c","e">>
    /\ Slot(ret.content, "### REGION-SPECIFIC ADVICE FOR ", ":") = <<"P","U","N","J","A","B">>
    /\ ret.metadata.crop = <<"r","I","C","E">>

\* a required field is missing from the body or empty after trimming
RequiredFieldMissingOrEmpty(body) ==
    \E key \in {"crop", "region", "problem"} :
        \/ body[key] = Absent
        \/ body[key].kind = "str" /\ Strip(body[key].s) = <<>>

\* C1 as claimed: every request in which crop, region or problem is missing or
\* empty after trimming is answered with the validation failure (success
\* false, an error message, status 400), and create_module is not invoked.
C1_Original ==
    \A w \in Workers :
        (/\ pc[w] = "done"
         /\ request_data[w].kind = "object"
         /\ RequiredFieldMissingOrEmpty(request_data[w]))
        => /\ response[w].status = 400
           /\ response[w].success = FALSE
           /\ frame[w].core = FALSE

\* the document ends with its closing line and has every section
CompleteDocument(content) ==
    /\ content # <<>>
    /\ content[1] = "# FARMER TRAINING MODULE"
    /\ content[Len(content)] =
          "*Always consult local agricultural experts before implementing new techniques.*"
    /\ \A marker \in SectionMarkers : Contains(content, <<marker>>)

\* C2: every request ends in exactly one of three responses: success with a
\* complete document, the validation failure (400), or the generic failure
\* (500).  Whenever an exception was raised, the response is the 500 one with
\* the fixed message, and it carries neither the cause nor any document.
C2_ThreeOutcomes ==
    \A w \in Workers :
        pc[w] = "done" =>
            /\ \/ /\ response[w].status = 200
                  /\ response[w].success = TRUE
                  /\ DOMAIN response[w] = {"status", "success", "data", "system_info"}
                  /\ CompleteDocument(response[w].data.content)
               \/ response[w] =
                     [status |-> 400, success |-> FALSE,
                      error |-> "Please fill in all fields: Crop, Region, and Problem"]
               \/ response[w] =
                     [status |-> 500, success |-> FALSE,
                      error |-> "Could not generate training module. Please try again."]
            /\ frame[w].error # "none" =>
                  response[w] =
                     [status |-> 500, success |-> FALSE,
                      error |-> "Could not generate training module. Please try again."]

\* C2 witness: an exception after the document had been assembled
C2_Witness ==
    \E w \in Workers :
        /\ pc[w] = "done"
        /\ frame[w].error = "MemoryError"
        /\ frame[w].at = "respond"
        /\ response[w].status = 500

\* C8: under any interleaving, no request changes CROP_INFO or
\* PROBLEM_SOLUTIONS, and the response to each request is the one it gets when
\* handled alone with the same input and the same clock reading.
C8_RequestsDoNotInterfere ==
    /\ CROP_INFO = CropInfoTable
    /\ PROBLEM_SOLUTIONS = ProblemSolutionsTable
    /\ \A w \in Workers :
          pc[w] = "done" =>
              response[w] = HandleAlone(hashSecret, request_data[w], frame[w].now,
                                        frame[w].error = "MemoryError")

\* C8 witness: two requests overlap: one has answered with a document although
\* it read the clock after the other, which is still being assembled
C8_Witness ==
    \E w1, w2 \in Workers :
        /\ pc[w1] = "done"
        /\ response[w1].status = 200
        /\ pc[w2] = "build"
        /\ frame[w1].now > frame[w2].now
        /\ frame[w1].now # NotRead
        /\ frame[w2].now # NotRead

=============================================================================
